---- MODULE Spec2Model ----
(***************************************************************************)
(* Model of the scripted element adapter (gom/extensions.py) and of the    *)
(* dialog adapter (gom/api/dialog/__init__.py).                            *)
(*                                                                         *)
(* Three specifications:                                                   *)
(*   Spec       one invocation of the default                              *)
(*              ScriptedElement.compute_stages, statement by statement,    *)
(*              with the author's compute as the environment;              *)
(*   SpecCtor   construction of ScriptedActual / ScriptedCheck elements    *)
(*              and what they hand to Contribution.__init__;               *)
(*   SpecDialog calls of gom.api.dialog.execute across the host boundary.  *)
(***************************************************************************)
EXTENDS Integers, Sequences, FiniteSets, TLC

(***************************************************************************)
(* Bounds                                                                  *)
(***************************************************************************)
\* longest context.stages the host passes
MaxStages == 3
\* number of elements a script constructs
MaxElements == 2
\* number of dialogs a script executes
MaxDialogs == 2

(***************************************************************************)
(* Value universes                                                         *)
(***************************************************************************)
\* no exception
None == "None"
\* stage identifiers: opaque integers, not necessarily consecutive
StageIds == {0, 7}
\* value of context.stage before compute_stages is entered
InitialStages == {-1, 0}
\* widget names the host passes as keyword arguments.  "context" and "self"
\* cannot occur: they are parameters of compute_stages itself (line 112).
WidgetNames == {"a", "c", "ctx"}
\* widget values
WidgetValues == {1, 2}
\* names an author may give the named parameters of compute
NamedParams == {"a", "c"}
\* names an author may give the first (context) parameter of compute
CtxParams == {"context", "ctx"}
\* values an author's compute returns
ResultValues == {10, 20}
\* exceptions an author's compute raises from its body
ComputeErrors == {"ValueError", "RuntimeError"}
\* TypeErrors python raises when the arguments of a call do not bind
SignatureErrors == {"TypeError: unexpected keyword argument",
                    "TypeError: multiple values for argument"}
MissingError == "TypeError: missing required argument"

\* all keyword-argument dictionaries over the widget names
KwargsSets == UNION {[S -> WidgetValues] : S \in SUBSET WidgetNames}
\* all stage sequences up to MaxStages
StageSeqs == UNION {[1..n -> StageIds] : n \in 0..MaxStages}
\* signatures of the author's compute(self, <ctxParam>, <named...>[, *args][, **kwargs])
Signatures == [ctxParam : CtxParams, named : SUBSET NamedParams,
               has_args : BOOLEAN, has_kwargs : BOOLEAN]

VARIABLES
    pc,         \* position inside compute_stages
    sig,        \* signature of self.compute
    ctxStages,  \* context.stages
    ctxStage,   \* context.stage, the current-stage field
    kwargsIn,   \* kwargs as received by compute_stages
    stagesIn,   \* context.stages as received
    stageIn,    \* context.stage as received
    kwargs,     \* local variable kwargs
    idx,        \* number of entries the for loop has taken from context.stages
    result,     \* local variable result
    calls,      \* log of the calls of self.compute
    ret,        \* <<v>> once compute_stages has returned v, <<>> before
    exc         \* exception propagated out of compute_stages, None if none

csVars == <<pc, sig, ctxStages, ctxStage, kwargsIn, stagesIn, stageIn,
            kwargs, idx, result, calls, ret, exc>>

VARIABLES
    constructed,  \* log of the constructor calls that created an element
    registry,     \* log of the arguments Contribution.__init__ received
    ctorExc       \* exception of the last constructor call, None if none

ctorVars == <<constructed, registry, ctorExc>>

VARIABLES
    executions,   \* log of the calls of gom.api.dialog.execute
    hostCalls     \* log of the calls of gom.__api__.__call_function__

dlgVars == <<executions, hostCalls>>

vars == <<csVars, ctorVars, dlgVars>>

(***************************************************************************)
(* inspect.signature(self.compute).parameters and the filter               *)
(***************************************************************************)
\* keys of inspect.signature(self.compute).parameters when compute has no
\* catch-all: the context parameter and the named parameters (self is bound)
Params(s) == {s.ctxParam} \cup s.named

\* variant: the filter is left out
FilterKwargs_none(s, kw) == kw

\* variant: the filter is applied whatever compute declares
FilterKwargs_always(s, kw) == [k \in {x \in DOMAIN kw : x \in Params(s)} |-> kw[k]]

\* {k: v for k, v in kwargs.items() if k in params}
FilterKwargs(s, kw) ==
    IF ~(s.has_args \/ s.has_kwargs)
    THEN [k \in {x \in DOMAIN kw : x \in Params(s)} |-> kw[k]]
    ELSE kw

(***************************************************************************)
(* Binding of the call self.compute(context, **kwargs)                     *)
(***************************************************************************)
\* The TypeErrors the call can raise before the body of compute runs.  One
\* positional argument fills the context parameter; every keyword must name
\* a parameter that is still free, or be taken by **kwargs.  Python reports
\* the first offending keyword in dictionary order, so with several
\* offenders either error can be the one raised.  A missing named parameter
\* is reported only when all keywords were accepted.  Named parameters are
\* taken to have no default value.
KeywordErrors(s, kw) ==
    {e \in SignatureErrors :
        \/ /\ e = "TypeError: multiple values for argument"
           /\ s.ctxParam \in DOMAIN kw
        \/ /\ e = "TypeError: unexpected keyword argument"
           /\ ~s.has_kwargs
           /\ \E k \in DOMAIN kw : k \notin Params(s)}

BindErrors(s, kw) ==
    IF KeywordErrors(s, kw) # {} THEN KeywordErrors(s, kw)
    ELSE IF \E p \in s.named : p \notin DOMAIN kw THEN {MissingError}
    ELSE {}

(***************************************************************************)
(* ScriptedElement.compute_stages                                          *)
(***************************************************************************)
\* variant: the loop runs over range(len(context.stages))
StageAt_index(stages, i) == i - 1

\* for stage in context.stages: the entry the iterator yields as its i-th
StageAt(stages, i) == stages[i]

\* variant: result.insert(0, v)
ResultAppend_front(r, v) == <<v>> \o r

\* result.append(v)
ResultAppend(r, v) == Append(r, v)

\* entry of the call log
CallEntry(stage, kw, status, value, error) ==
    [stage |-> stage, kw |-> kw, status |-> status, value |-> value, error |-> error]

\* the log with its last entry replaced
SetLast(log, e) == [log EXCEPT ![Len(log)] = e]

csInit ==
    /\ pc = "idle"
    /\ sig = [ctxParam |-> "context", named |-> {}, has_args |-> FALSE, has_kwargs |-> FALSE]
    /\ ctxStages = <<>>
    /\ ctxStage \in InitialStages
    /\ kwargsIn = <<>>
    /\ stagesIn = <<>>
    /\ stageIn = ctxStage
    /\ kwargs = <<>>
    /\ idx = 0
    /\ result = <<>>
    /\ calls = <<>>
    /\ ret = <<>>
    /\ exc = None

\* The host calls the registered callable 'compute_stages' of an element whose
\* compute has signature s, with a context carrying the stage sequence and
\* with the widget values as keyword arguments; result = [] (line 121).
Invoke(s, stages, kw) ==
    /\ pc = "idle"
    /\ pc' = "entered"
    /\ sig' = s
    /\ ctxStages' = stages
    /\ stagesIn' = stages
    /\ stageIn' = ctxStage
    /\ kwargsIn' = kw
    /\ kwargs' = kw
    /\ result' = <<>>
    /\ UNCHANGED <<ctxStage, idx, calls, ret, exc>>
    /\ UNCHANGED <<ctorVars, dlgVars>>

\* the invocations the host can make
HostInvokes ==
    /\ pc = "idle"
    /\ \E s \in Signatures, stages \in StageSeqs, kw \in KwargsSets : Invoke(s, stages, kw)

\* lines 129-135: introspect compute and filter the keyword arguments
Filter ==
    /\ pc = "entered"
    /\ kwargs' = FilterKwargs(sig, kwargs)
    /\ pc' = "loop"
    /\ UNCHANGED <<sig, ctxStages, ctxStage, kwargsIn, stagesIn, stageIn,
                   idx, result, calls, ret, exc>>
    /\ UNCHANGED <<ctorVars, dlgVars>>

\* lines 137-138: the for loop takes the next stage and stores it in the context
SetStage ==
    /\ pc = "loop"
    /\ idx < Len(ctxStages)
    /\ idx' = idx + 1
    /\ ctxStage' = StageAt(ctxStages, idx + 1)
    /\ pc' = "call"
    /\ UNCHANGED <<sig, ctxStages, kwargsIn, stagesIn, stageIn, kwargs,
                   result, calls, ret, exc>>
    /\ UNCHANGED <<ctorVars, dlgVars>>

\* line 139: self.compute(context, **kwargs) is called and its arguments bind;
\* the body of compute starts running
CallCompute ==
    /\ pc = "call"
    /\ BindErrors(sig, kwargs) = {}
    /\ calls' = Append(calls, CallEntry(ctxStage, kwargs, "running", 0, None))
    /\ pc' = "compute"
    /\ UNCHANGED <<sig, ctxStages, ctxStage, kwargsIn, stagesIn, stageIn,
                   kwargs, idx, result, ret, exc>>
    /\ UNCHANGED <<ctorVars, dlgVars>>

\* line 139: the arguments do not bind; the TypeError leaves compute_stages
CallFails(e) ==
    /\ pc = "call"
    /\ e \in BindErrors(sig, kwargs)
    /\ calls' = Append(calls, CallEntry(ctxStage, kwargs, "raised", 0, e))
    /\ exc' = e
    /\ pc' = "raised"
    /\ UNCHANGED <<sig, ctxStages, ctxStage, kwargsIn, stagesIn, stageIn,
                   kwargs, idx, result, ret>>
    /\ UNCHANGED <<ctorVars, dlgVars>>

\* line 139: compute returns v, which is appended to result
ComputeReturns(v) ==
    /\ pc = "compute"
    /\ calls' = SetLast(calls, CallEntry(calls[Len(calls)].stage, calls[Len(calls)].kw,
                                         "returned", v, None))
    /\ result' = ResultAppend(result, v)
    /\ pc' = "loop"
    /\ UNCHANGED <<sig, ctxStages, ctxStage, kwargsIn, stagesIn, stageIn,
                   kwargs, idx, ret, exc>>
    /\ UNCHANGED <<ctorVars, dlgVars>>

\* variant: the exception of compute is caught and the loop goes on
ComputeRaises_caught(e) ==
    /\ pc = "compute"
    /\ calls' = SetLast(calls, CallEntry(calls[Len(calls)].stage, calls[Len(calls)].kw,
                                         "raised", 0, e))
    /\ pc' = "loop"
    /\ UNCHANGED <<sig, ctxStages, ctxStage, kwargsIn, stagesIn, stageIn,
                   kwargs, idx, result, ret, exc>>
    /\ UNCHANGED <<ctorVars, dlgVars>>

\* line 139: compute raises e; nothing catches it, it leaves compute_stages
ComputeRaises(e) ==
    /\ pc = "compute"
    /\ calls' = SetLast(calls, CallEntry(calls[Len(calls)].stage, calls[Len(calls)].kw,
                                         "raised", 0, e))
    /\ exc' = e
    /\ pc' = "raised"
    /\ UNCHANGED <<sig, ctxStages, ctxStage, kwargsIn, stagesIn, stageIn,
                   kwargs, idx, result, ret>>
    /\ UNCHANGED <<ctorVars, dlgVars>>

\* variant: the current-stage field is put back before returning
ReturnResult_restoring ==
    /\ pc = "loop"
    /\ idx >= Len(ctxStages)
    /\ ret' = <<result>>
    /\ ctxStage' = stageIn
    /\ pc' = "returned"
    /\ UNCHANGED <<sig, ctxStages, kwargsIn, stagesIn, stageIn,
                   kwargs, idx, result, calls, exc>>
    /\ UNCHANGED <<ctorVars, dlgVars>>

\* lines 137, 141: the iterator is exhausted; return result
ReturnResult ==
    /\ pc = "loop"
    /\ idx >= Len(ctxStages)
    /\ ret' = <<result>>
    /\ pc' = "returned"
    /\ UNCHANGED <<sig, ctxStages, ctxStage, kwargsIn, stagesIn, stageIn,
                   kwargs, idx, result, calls, exc>>
    /\ UNCHANGED <<ctorVars, dlgVars>>

Next ==
    \/ HostInvokes
    \/ Filter
    \/ SetStage
    \/ CallCompute
    \/ \E e \in SignatureErrors \cup {MissingError} : CallFails(e)
    \/ \E v \in ResultValues : ComputeReturns(v)
    \/ \E e \in ComputeErrors : ComputeRaises(e)
    \/ ReturnResult

(***************************************************************************)
(* Construction of scripted elements                                       *)
(***************************************************************************)
\* a few element type names and kinds a script passes to the constructors
ElementNames == {"Circle fit", "Gap check"}
ElementTypes == {"point", "line"}
\* the two provided variants
Variants == {"ScriptedActual", "ScriptedCheck"}
\* methods of ScriptedElement; the first two are abstract (lines 95-110)
Methods == {"dialog", "compute", "compute_stages"}
AbstractMethods == {"dialog", "compute"}
\* an author's class: the variant it derives from and the methods it defines
AuthorClasses == [base : Variants, defines : SUBSET Methods]
AbstractError == "TypeError: Can't instantiate abstract class"

\* self.<m>: the method bound to the element, looked up in the author's
\* class first and in ScriptedElement second
BoundMethod(self, cls, m) ==
    [self |-> self, owner |-> IF m \in cls.defines THEN "author" ELSE "ScriptedElement",
     method |-> m]

\* variant: compute is registered as a third callable
ScriptedElementInit_compute(self, cls, name, element_type, category) ==
    [name |-> name,
     category |-> category,
     callables |-> [n \in {"dialog", "compute", "compute_stages"} |-> BoundMethod(self, cls, n)],
     properties |-> [p \in {"element_type"} |-> element_type]]

\* ScriptedElement.__init__: the arguments of super().__init__ (lines 86-93)
ScriptedElementInit(self, cls, name, element_type, category) ==
    [name |-> name,
     category |-> category,
     callables |-> [n \in {"dialog", "compute_stages"} |-> BoundMethod(self, cls, n)],
     properties |-> [p \in {"element_type"} |-> element_type]]

\* ScriptedActual.__init__ (line 156)
ScriptedActualInit(self, cls, name, element_type) ==
    ScriptedElementInit(self, cls, name, element_type, "scriptedelement.actual")

\* variant: the category of the other variant
ScriptedCheckInit_actual(self, cls, name, element_type) ==
    ScriptedElementInit(self, cls, name, element_type, "scriptedelement.actual")

\* ScriptedCheck.__init__ (line 171)
ScriptedCheckInit(self, cls, name, element_type) ==
    ScriptedElementInit(self, cls, name, element_type, "scriptedelement.check")

ctorInit ==
    /\ constructed = <<>>
    /\ registry = <<>>
    /\ ctorExc = None

\* A script instantiates an author's class that implements dialog and compute
Construct(cls, name, element_type) ==
    /\ Len(constructed) < MaxElements
    /\ AbstractMethods \subseteq cls.defines
    /\ constructed' = Append(constructed,
                             [cls |-> cls, name |-> name, element_type |-> element_type])
    /\ registry' = Append(registry,
                          IF cls.base = "ScriptedActual"
                          THEN ScriptedActualInit(Len(constructed) + 1, cls, name, element_type)
                          ELSE ScriptedCheckInit(Len(constructed) + 1, cls, name, element_type))
    /\ ctorExc' = None
    /\ UNCHANGED <<csVars, dlgVars>>

\* A script instantiates an author's class that leaves dialog or compute
\* abstract: ABC refuses before any __init__ runs
ConstructAbstract(cls) ==
    /\ Len(constructed) < MaxElements
    /\ ~(AbstractMethods \subseteq cls.defines)
    /\ ctorExc' = AbstractError
    /\ UNCHANGED <<constructed, registry, csVars, dlgVars>>

ctorNext ==
    \/ \E cls \in AuthorClasses, name \in ElementNames, element_type \in ElementTypes :
          Construct(cls, name, element_type)
    \/ \E cls \in AuthorClasses : ConstructAbstract(cls)

(***************************************************************************)
(* gom.api.dialog.execute                                                  *)
(***************************************************************************)
\* script contexts: the live context of the running callable, and a stale one
Contexts == {"live", "stale"}
\* dialog references
DialogRefs == {"setup.gdlg", "limits.gdlg", "missing.gdlg"}
\* what the host returns on confirmation and on cancellation
ConfirmValues == {"{radius: 1}", "{radius: 2}"}
CancelValues == {"{}"}
HostErrors == {"RequestError: dialog not found", "RequestError: invalid context"}

\* the arguments execute hands to __call_function__ (line 32)
CallFunctionArgs(context, data) == [context |-> context, data |-> data]

\* variant: a cancelled dialog is turned into None
ExecuteResult_cancel(hostValue) == IF hostValue \in CancelValues THEN None ELSE hostValue

\* return <value of __call_function__> (line 32)
ExecuteResult(hostValue) == hostValue

\* TRUE while a call of execute has not come back to the script
Executing ==
    /\ executions # <<>>
    /\ executions[Len(executions)].status = "blocked"

dlgInit ==
    /\ executions = <<>>
    /\ hostCalls = <<>>

\* The script calls execute(context, data); execute calls the host (line 32)
\* and waits
Execute(context, data) ==
    /\ ~Executing
    /\ Len(executions) < MaxDialogs
    /\ executions' = Append(executions,
                            [context |-> context, data |-> data, status |-> "blocked",
                             value |-> None])
    /\ hostCalls' = Append(hostCalls,
                           [args |-> CallFunctionArgs(context, data), status |-> "open",
                            value |-> None])
    /\ UNCHANGED <<csVars, ctorVars>>

\* the call the host is working on
OpenCall ==
    /\ hostCalls # <<>>
    /\ hostCalls[Len(hostCalls)].status = "open"

\* The user confirms the dialog: the host call completes with the widget values
HostConfirms(v) ==
    /\ OpenCall
    /\ hostCalls' = SetLast(hostCalls, [hostCalls[Len(hostCalls)] EXCEPT
                                           !.status = "confirmed", !.value = v])
    /\ UNCHANGED <<executions, csVars, ctorVars>>

\* The user cancels the dialog: the host call completes with a host-defined value
HostCancels(v) ==
    /\ OpenCall
    /\ hostCalls' = SetLast(hostCalls, [hostCalls[Len(hostCalls)] EXCEPT
                                           !.status = "cancelled", !.value = v])
    /\ UNCHANGED <<executions, csVars, ctorVars>>

\* The host call raises, for instance because the reference does not resolve
\* or the context is not valid
HostRaises(e) ==
    /\ OpenCall
    /\ hostCalls' = SetLast(hostCalls, [hostCalls[Len(hostCalls)] EXCEPT
                                           !.status = "raised", !.value = e])
    /\ UNCHANGED <<executions, csVars, ctorVars>>

\* line 32: __call_function__ has returned; execute returns its value
ExecuteReturns ==
    /\ Executing
    /\ hostCalls[Len(hostCalls)].status \in {"confirmed", "cancelled"}
    /\ executions' = SetLast(executions, [executions[Len(executions)] EXCEPT
                                 !.status = "returned",
                                 !.value = ExecuteResult(hostCalls[Len(hostCalls)].value)])
    /\ UNCHANGED <<hostCalls, csVars, ctorVars>>

\* line 32: __call_function__ has raised; nothing catches the exception
ExecutePropagates ==
    /\ Executing
    /\ hostCalls[Len(hostCalls)].status = "raised"
    /\ executions' = SetLast(executions, [executions[Len(executions)] EXCEPT
                                 !.status = "raised",
                                 !.value = hostCalls[Len(hostCalls)].value])
    /\ UNCHANGED <<hostCalls, csVars, ctorVars>>

dlgNext ==
    \/ \E context \in Contexts, data \in DialogRefs : Execute(context, data)
    \/ \E v \in ConfirmValues : HostConfirms(v)
    \/ \E v \in CancelValues : HostCancels(v)
    \/ \E e \in HostErrors : HostRaises(e)
    \/ ExecuteReturns
    \/ ExecutePropagates

(***************************************************************************)
(* Specifications                                                          *)
(***************************************************************************)
Init == csInit /\ ctorInit /\ dlgInit

Spec == Init /\ [][Next]_vars

SpecCtor == Init /\ [][ctorNext]_vars

SpecDialog == Init /\ [][dlgNext]_vars

(***************************************************************************)
(* Properties of compute_stages (Spec)                                     *)
(***************************************************************************)
\* C1: when every compute call returned normally, compute_stages returns a
\* vector as long as context.stages whose k-th entry is the value returned by
\* the compute call made for context.stages[k]
C1_ResultAlignedWithStages ==
    pc = "returned" =>
        /\ Len(ret[1]) = Len(stagesIn)
        /\ Len(calls) = Len(stagesIn)
        /\ \A k \in 1..Len(stagesIn) :
              /\ calls[k].stage = stagesIn[k]
              /\ calls[k].status = "returned"
              /\ ret[1][k] = calls[k].value

C1_Witness ==
    /\ pc = "returned"
    /\ Len(stagesIn) >= 2
    /\ stagesIn[1] # stagesIn[2]
    /\ ret[1][1] # ret[1][2]

\* C2: when compute declares neither *args nor **kwargs, every compute call
\* gets exactly the incoming entries whose key is a declared parameter name of
\* compute, with their values
C2_FilteredToDeclared ==
    (pc # "idle" /\ ~sig.has_args /\ ~sig.has_kwargs) =>
        \A k \in 1..Len(calls) :
            /\ DOMAIN calls[k].kw = {x \in DOMAIN kwargsIn : x = sig.ctxParam \/ x \in sig.named}
            /\ \A x \in DOMAIN calls[k].kw : calls[k].kw[x] = kwargsIn[x]

C2_Witness ==
    /\ pc = "returned"
    /\ ~sig.has_args /\ ~sig.has_kwargs
    /\ Len(calls) >= 2
    /\ sig.named = {"a"}
    /\ DOMAIN kwargsIn = {"a", "c"}
    /\ kwargsIn["a"] # kwargsIn["c"]

\* C3: when compute declares *args or **kwargs, every compute call gets the
\* incoming kwargs unfiltered, undeclared keys included
C3_CatchAllUnfiltered ==
    (pc # "idle" /\ (sig.has_args \/ sig.has_kwargs)) =>
        \A k \in 1..Len(calls) : calls[k].kw = kwargsIn

C3_Witness ==
    /\ pc = "returned"
    /\ sig.has_kwargs /\ ~sig.has_args
    /\ Len(calls) >= 2
    /\ sig.named = {"a"}
    /\ DOMAIN kwargsIn = {"a", "c"}

\* C4: a failure of the k-th compute call leaves compute_stages as that same
\* failure, no vector is returned and no compute call follows the k-th
C4_FailFast ==
    \A k \in 1..Len(calls) :
        calls[k].status = "raised" =>
            /\ k = Len(calls)
            /\ pc = "raised"
            /\ ret = <<>>
            /\ exc = calls[k].error

C4_Witness ==
    /\ pc = "raised"
    /\ Len(stagesIn) = 3
    /\ Len(calls) = 2
    /\ Len(result) = 1
    /\ exc \in ComputeErrors

\* C5: compute is called once per entry of context.stages, in sequence order,
\* each call after the previous one has returned, and at the k-th call the
\* current-stage field equals context.stages[k]
C5_SequentialInStageOrder ==
    /\ Len(calls) <= Len(stagesIn)
    /\ \A k \in 1..Len(calls) : calls[k].stage = stagesIn[k]
    /\ \A k \in 1..(Len(calls) - 1) : calls[k].status = "returned"
    /\ pc = "call" => ctxStage = stagesIn[Len(calls) + 1]
    /\ pc = "returned" => Len(calls) = Len(stagesIn)

C5_Witness ==
    /\ pc = "returned"
    /\ Len(stagesIn) = 3
    /\ stagesIn[1] = 7
    /\ stagesIn[2] = 7
    /\ stagesIn[3] = 0

\* C6: whenever the incoming kwargs hold at least the named parameters of
\* compute, no compute call fails with an unexpected-keyword or a
\* duplicate-argument TypeError
C6_NoSignatureMismatch ==
    (pc # "idle" /\ sig.named \subseteq DOMAIN kwargsIn) =>
        \A k \in 1..Len(calls) : calls[k].error \notin SignatureErrors

\* C10: compute_stages leaves context.stages alone and does not restore the
\* current-stage field: after a return it is the last stage, after a failure
\* the failing stage; with no stages compute is never called, the field keeps
\* its value and the result is the empty vector
C10_ContextFrame ==
    /\ pc # "idle" => ctxStages = stagesIn
    /\ (pc = "returned" /\ stagesIn # <<>>) => ctxStage = stagesIn[Len(stagesIn)]
    /\ pc = "raised" => ctxStage = stagesIn[Len(calls)]
    /\ (pc \in {"returned", "raised"} /\ stagesIn = <<>>) =>
          /\ calls = <<>>
          /\ ctxStage = stageIn
          /\ ret = << <<>> >>

C10_Witness ==
    /\ pc = "returned"
    /\ Len(stagesIn) >= 2
    /\ ctxStage # stageIn
    /\ ctxStage # stagesIn[1]

(***************************************************************************)
(* Properties of the constructors (SpecCtor)                               *)
(***************************************************************************)
\* C7: a ScriptedActual is registered with category 'scriptedelement.actual'
\* and a ScriptedCheck with 'scriptedelement.check', whatever name and
\* element_type are, and both are forwarded unchanged
C7_CategoryFixed ==
    /\ Len(registry) = Len(constructed)
    /\ \A i \in 1..Len(registry) :
          /\ constructed[i].cls.base = "ScriptedActual" =>
                registry[i].category = "scriptedelement.actual"
          /\ constructed[i].cls.base = "ScriptedCheck" =>
                registry[i].category = "scriptedelement.check"
          /\ registry[i].name = constructed[i].name
          /\ registry[i].properties["element_type"] = constructed[i].element_type

C7_Witness ==
    /\ Len(registry) = 2
    /\ constructed[1].cls.base = "ScriptedActual"
    /\ constructed[2].cls.base = "ScriptedCheck"
    /\ constructed[1].name = constructed[2].name
    /\ constructed[1].element_type = constructed[2].element_type

\* C8: an element registers exactly the callables 'dialog' and
\* 'compute_stages', bound to its own implementations (the author's
\* compute_stages when there is one), and exactly the property 'element_type'
\* holding the constructor argument
C8_RegisteredSurface ==
    \A i \in 1..Len(registry) :
        /\ DOMAIN registry[i].callables = {"dialog", "compute_stages"}
        /\ \A n \in DOMAIN registry[i].callables :
              /\ registry[i].callables[n].self = i
              /\ registry[i].callables[n].method = n
              /\ registry[i].callables[n].owner =
                    IF n \in constructed[i].cls.defines THEN "author" ELSE "ScriptedElement"
        /\ DOMAIN registry[i].properties = {"element_type"}
        /\ registry[i].properties["element_type"] = constructed[i].element_type

C8_Witness ==
    /\ Len(registry) = 2
    /\ "compute_stages" \in constructed[1].cls.defines
    /\ "compute_stages" \notin constructed[2].cls.defines
    /\ constructed[1].element_type # constructed[2].element_type

(***************************************************************************)
(* Properties of the dialog adapter (SpecDialog)                           *)
(***************************************************************************)
\* C9: every call of execute makes one host call with the same context and
\* reference, comes back only after the host call is complete, returns the
\* host's value whether confirmed or cancelled, and passes on the host's error
C9_ExecuteForwards ==
    /\ Len(hostCalls) = Len(executions)
    /\ \A i \in 1..Len(executions) :
          /\ hostCalls[i].args.context = executions[i].context
          /\ hostCalls[i].args.data = executions[i].data
          /\ executions[i].status = "returned" =>
                /\ hostCalls[i].status \in {"confirmed", "cancelled"}
                /\ executions[i].value = hostCalls[i].value
          /\ executions[i].status = "raised" =>
                /\ hostCalls[i].status = "raised"
                /\ executions[i].value = hostCalls[i].value
          /\ executions[i].status = "blocked" => i = Len(executions)

C9_Witness ==
    /\ Len(executions) = 2
    /\ executions[1].status = "returned"
    /\ hostCalls[1].status = "cancelled"
    /\ executions[2].status = "raised"

====
